---- MODULE Spec2Model ----
(***************************************************************************)
(* azure-prices.py: a command-line tool that builds a query for the Azure  *)
(* retail prices API, follows the API's next-page links, and prints the    *)
(* collected items in one of several formats.                              *)
(*                                                                         *)
(* Text is modelled as a sequence of tokens (a character, or an atomic     *)
(* chunk of characters that the program never looks inside).  "%s" % x and *)
(* + are concatenation, str.join is Join, str.split is AfterFirst, and     *)
(* print writes the lines of its argument.                                 *)
(***************************************************************************)
EXTENDS Integers, Sequences, FiniteSets, TLC

\* ------------------------------------------------------------------ bounds
\* Most HTTP calls one run may make.
MaxPages == 3
\* Most --limit options on one command line.
MaxLimit == 3

\* -------------------------------------------------------- program constants
\* The one status _do_prices_api_call accepts.
HTTP_OK == 200

\* ------------------------------------------------------------ text helpers
RECURSIVE Join(_, _)
\* sep.join(parts): the parts in order, with sep between neighbours.
Join(sep, parts) ==
    IF parts = <<>> THEN <<>>
    ELSE IF Len(parts) = 1 THEN parts[1]
    ELSE parts[1] \o sep \o Join(sep, Tail(parts))

Digit(d) == <<"0", "1", "2", "3", "4", "5", "6", "7", "8", "9">>[d + 1]

RECURSIVE StrInt(_)
\* "%d" % n and str(n) for a natural number: its decimal digits.
StrInt(n) == IF n < 10 THEN <<Digit(n)>> ELSE StrInt(n \div 10) \o <<Digit(n % 10)>>

\* Whether token tok occurs in s.
HasTok(s, tok) == \E i \in 1..Len(s) : s[i] = tok

\* Index of the first occurrence of tok in s (s holds tok).
FirstTok(s, tok) == CHOOSE i \in 1..Len(s) : s[i] = tok /\ \A j \in 1..(i - 1) : s[j] # tok

\* s.split(tok, 1)[1]: the text after the first tok (s holds tok).
AfterFirst(s, tok) == SubSeq(s, FirstTok(s, tok) + 1, Len(s))

\* s.startswith(prefix)
StartsWith(s, prefix) == Len(s) >= Len(prefix) /\ SubSeq(s, 1, Len(prefix)) = prefix

RECURSIVE SplitLines(_)
\* The lines print(s) writes: s cut at every newline token.
SplitLines(s) ==
    IF ~HasTok(s, "\n") THEN <<s>>
    ELSE <<SubSeq(s, 1, FirstTok(s, "\n") - 1)>> \o SplitLines(AfterFirst(s, "\n"))

\* All sequences over S of length at most n.
SeqsUpTo(S, n) == UNION {[1..k -> S] : k \in 0..n}

\* ------------------------------------------------------------ Python values
\* A dict keyed by text: a function on a finite set of keys.
EmptyDict == [k \in {} |-> <<>>]
Put(d, k, v) == [x \in (DOMAIN d) \cup {k} |-> IF x = k THEN v ELSE d[x]]

\* An item's field value: text or a number.
StrVal(s) == [t |-> "str", s |-> s, n |-> 0]
NumVal(n) == [t |-> "num", s |-> <<>>, n |-> n]

\* str(v) of a field value.
Str(v) == IF v.t = "num" THEN StrInt(v.n) ELSE v.s

\* What the server may send as price items.  An item is a dict of fields;
\* the API documents skuId, but the program enforces no schema.
ItemA == [skuId |-> StrVal(<<"A">>), price |-> NumVal(15)]
ItemB == [skuId |-> StrVal(<<"B">>), price |-> NumVal(2)]
ItemNoSku == [price |-> NumVal(7)]
ItemLists == {<<>>, <<ItemA>>, <<ItemB, ItemA>>, <<ItemNoSku>>}

\* The NextPageLink member of a response body: the key may be missing
\* ("absent"), its value may be null ("null"), or it is text ("str").
AbsentLink == [kind |-> "absent", s |-> <<>>]
NullLink == [kind |-> "null", s |-> <<>>]
StrLink(s) == [kind |-> "str", s |-> s]
Links ==
    {AbsentLink, NullLink, StrLink(<<>>), StrLink(<<"u">>),
     StrLink(<<"u", "?", "y", "?", "z">>)}

\* One HTTP response: a status, the body text of an error response, and the
\* members of a decoded body.
OkPages ==
    {[status |-> HTTP_OK, text |-> <<>>, Count |-> c, Items |-> items, NextPageLink |-> l] :
        c \in 0..3, items \in ItemLists, l \in Links}
ErrorStatuses == {404, 500}
ErrorPages ==
    {[status |-> st, text |-> <<"oops">>, Count |-> 0, Items |-> <<>>, NextPageLink |-> AbsentLink] :
        st \in ErrorStatuses}
\* The responses the server may give: every error page, and every body whose
\* Count is right or one too many.
Pages == {p \in OkPages : p.Count \in {Len(p.Items), Len(p.Items) + 1}} \cup ErrorPages

\* ------------------------------------------------------------- the module
\* Some members of the module as inspect.getmembers lists them (sorted by
\* name), each with its user_facing_name attribute if it has one (<<>>: none).
ModuleMembers ==
    <<[name |-> <<"f", "i", "n", "d", "_", "o", "u", "t", "p", "u", "t", "t", "e", "r", "s">>,
        user_facing_name |-> <<>>],
       [name |-> <<"g", "e", "t", "_", "a", "z", "u", "r", "e", "_", "p", "r", "i", "c", "e", "s">>,
        user_facing_name |-> <<>>],
       [name |-> <<"o", "u", "t", "p", "u", "t", "_", "c", "s", "v">>,
        user_facing_name |-> <<>>],
       [name |-> <<"o", "u", "t", "p", "u", "t", "_", "j", "s", "o", "n">>,
        user_facing_name |-> <<>>],
       [name |-> <<"o", "u", "t", "p", "u", "t", "_", "t", "a", "b", "l", "e">>,
        user_facing_name |-> <<>>],
       [name |-> <<"o", "u", "t", "p", "u", "t", "_", "t", "s", "v">>,
        user_facing_name |-> <<>>],
       [name |-> <<"t", "a", "b", "u", "l", "a", "t", "e">>,
        user_facing_name |-> <<>>]>>

\* Names as the command line spells them.
PREFIX == <<"o", "u", "t", "p", "u", "t", "_">>
NameTable == <<"t", "a", "b", "l", "e">>
NameCsv == <<"c", "s", "v">>
NameTsv == <<"t", "s", "v">>
NameJson == <<"j", "s", "o", "n">>
NameXml == <<"x", "m", "l">>
FnTable == <<"o", "u", "t", "p", "u", "t", "_", "t", "a", "b", "l", "e">>
FnCsv == <<"o", "u", "t", "p", "u", "t", "_", "c", "s", "v">>
FnTsv == <<"o", "u", "t", "p", "u", "t", "_", "t", "s", "v">>
FnJson == <<"o", "u", "t", "p", "u", "t", "_", "j", "s", "o", "n">>

\* ------------------------------------------------------------------ errors
NoError == [type |-> "none", message |-> <<>>]
Raise(type, message) == [type |-> type, message |-> message]

\* A log record.
LogRec(level, text) == [level |-> level, text |-> text]

\* ------------------------------------------------------ _do_prices_api_call
\* The message of the AzurePricesApiError raised for a response.
ApiErrorMessage(page) ==
    <<"Non-zero exit code (">> \o StrInt(page.status)
        \o <<") from api call.  Response body was: ">> \o page.text

\* The warning logged for a body whose Count is not the length of its Items.
CountWarning(page) ==
    <<"Azure API call did not return the number of items (">> \o StrInt(Len(page.Items))
        \o <<") it said it found (">> \o StrInt(page.Count) \o <<")">>

\* Variant: the status is not looked at, every response is decoded.
ApiCallIgnoringStatus(url_arguments, page) ==
    [raised |-> FALSE,
     error |-> NoError,
     json_result |-> page,
     log |-> IF page.Count # Len(page.Items)
             THEN <<LogRec("warning", CountWarning(page))>>
             ELSE <<>>]

\* Variant: a Count that is not the number of items is an error.
ApiCallRaisingOnCount(url_arguments, page) ==
    IF page.status # HTTP_OK \/ page.Count # Len(page.Items)
    THEN [raised |-> TRUE,
          error |-> Raise("AzurePricesApiError", ApiErrorMessage(page)),
          json_result |-> page,
          log |-> <<LogRec("error", ApiErrorMessage(page))>>]
    ELSE [raised |-> FALSE, error |-> NoError, json_result |-> page, log |-> <<>>]

\* One call: page is the response requests.get returns.  The result says
\* whether the call raised, the error raised, the decoded body returned and
\* the records logged.
_do_prices_api_call(url_arguments, page) ==
    IF page.status # HTTP_OK
    THEN [raised |-> TRUE,
          error |-> Raise("AzurePricesApiError", ApiErrorMessage(page)),
          json_result |-> page,
          log |-> <<LogRec("error", ApiErrorMessage(page))>>]
    ELSE [raised |-> FALSE,
          error |-> NoError,
          json_result |-> page,
          log |-> IF page.Count # Len(page.Items)
                  THEN <<LogRec("warning", CountWarning(page))>>
                  ELSE <<>>]

\* ------------------------------------------------------------ _build_filter
\* A filter dict keeps insertion order: a sequence of entries
\* [key |-> property, values |-> its values in order].
\* Variant: the values are joined without repeating the property.
FilterClauseBareOr(key, values) ==
    <<"(">> \o key \o <<" eq ", "'">> \o Join(<<"'", " or ", "'">>, values) \o <<"'", ")">>

FilterClause(key, values) ==
    <<"(">> \o key \o <<" eq ", "'">>
        \o Join(<<"'", " or ">> \o key \o <<" eq ", "'">>, values)
        \o <<"'", ")">>

RECURSIVE BuildFilterLoop(_, _)
\* The for loop of _build_filter over the entries left, built_filter so far.
BuildFilterLoop(entries, built_filter) ==
    IF entries = <<>> THEN built_filter
    ELSE BuildFilterLoop(
            Tail(entries),
            (IF built_filter # <<>> THEN built_filter \o <<" and ">> ELSE built_filter)
                \o FilterClause(entries[1].key, entries[1].values))

_build_filter(filter) ==
    IF filter = <<>> THEN <<>> ELSE BuildFilterLoop(filter, <<>>)

\* --------------------------------------------------------- get_azure_prices
DefaultCurrency == <<"GBP">>

\* Variant: the $filter parameter is always sent.
InitialApiArgsAlwaysFilter(built, currency) ==
    <<"currencyCode=", "'">> \o currency \o <<"'">> \o <<"&$filter=">> \o built

\* The arguments of the first call, from the built filter.
InitialApiArgs(built, currency) ==
    LET first == <<"currencyCode=", "'">> \o currency \o <<"'">>
    IN  IF built # <<>> THEN first \o <<"&$filter=">> \o built ELSE first

\* Whether a NextPageLink value is true in a condition.
Truthy(link) == link.kind = "str" /\ link.s # <<>>

\* Variant: the next arguments are added to the current ones.
AfterPageAppending(api_args, result) ==
    LET next_page == result.NextPageLink IN
    IF next_page.kind = "absent"
    THEN [pc |-> "error", api_args |-> api_args,
          error |-> Raise("KeyError", <<"NextPageLink">>)]
    ELSE IF Truthy(next_page)
    THEN IF HasTok(next_page.s, "?")
         THEN [pc |-> "call", api_args |-> api_args \o <<"&">> \o AfterFirst(next_page.s, "?"),
               error |-> NoError]
         ELSE [pc |-> "error", api_args |-> api_args,
               error |-> Raise("IndexError", <<"list index out of range">>)]
    ELSE [pc |-> "log", api_args |-> api_args, error |-> NoError]

\* The body of the while loop after a call returned json body `result`:
\* what the loop does next, with which arguments.
AfterPage(api_args, result) ==
    LET next_page == result.NextPageLink IN
    IF next_page.kind = "absent"
    THEN [pc |-> "error", api_args |-> api_args,
          error |-> Raise("KeyError", <<"NextPageLink">>)]
    ELSE IF Truthy(next_page)
    THEN IF HasTok(next_page.s, "?")
         THEN [pc |-> "call", api_args |-> AfterFirst(next_page.s, "?"), error |-> NoError]
         ELSE [pc |-> "error", api_args |-> api_args,
               error |-> Raise("IndexError", <<"list index out of range">>)]
    ELSE [pc |-> "log", api_args |-> api_args, error |-> NoError]

\* The items of result_items that have no skuId member.
LacksSkuId(result_items) ==
    {i \in 1..Len(result_items) : "skuId" \notin DOMAIN result_items[i]}

\* len(sku_items): the number of distinct skuIds (every item has one).
SkuCount(result_items) ==
    Cardinality({result_items[i].skuId : i \in 1..Len(result_items)})

\* Lines 123-130: the records logged, and whether the function returns.
LogAndReturn(result_items) ==
    LET first == LogRec("info", StrInt(Len(result_items))
                            \o <<" items found from Azure Prices API">>)
    IN  IF LacksSkuId(result_items) # {}
        THEN [raised |-> TRUE, error |-> Raise("KeyError", <<"skuId">>),
              log |-> <<first>>, value |-> <<>>]
        ELSE [raised |-> FALSE, error |-> NoError,
              log |-> <<first, LogRec("info", StrInt(SkuCount(result_items))
                            \o <<" discrete skuIds found from Azure Prices API">>)>>,
              value |-> <<result_items>>]

\* ---------------------------------------------------------- find_outputters
RECURSIVE FindOutputtersKeepPrefix(_, _)
\* Variant: the lookup name is the function's whole name.
FindOutputtersKeepPrefix(members, result) ==
    IF members = <<>> THEN result
    ELSE IF StartsWith(members[1].name, PREFIX)
    THEN FindOutputtersKeepPrefix(Tail(members), Put(result, members[1].name, members[1].name))
    ELSE FindOutputtersKeepPrefix(Tail(members), result)

RECURSIVE FindOutputtersLoop(_, _)
FindOutputtersLoop(members, result) ==
    IF members = <<>> THEN result
    ELSE LET potential_method == members[1] IN
         IF StartsWith(potential_method.name, PREFIX)
         THEN LET method_name ==
                    IF potential_method.user_facing_name # <<>>
                    THEN potential_method.user_facing_name[1]
                    ELSE SubSeq(potential_method.name, Len(PREFIX) + 1,
                                Len(potential_method.name))
              IN  FindOutputtersLoop(Tail(members),
                                     Put(result, method_name, potential_method.name))
         ELSE FindOutputtersLoop(Tail(members), result)

\* The dict of lookup name -> the function it names.
find_outputters == FindOutputtersLoop(ModuleMembers, EmptyDict)

\* --------------------------------------------------------------- formatters
\* The --select option: None when not given, else the list of keys given.
NoSelect == [none |-> TRUE, keys |-> <<>>]
Select(keys) == [none |-> FALSE, keys |-> keys]

\* A formatter's outcome: whether it raised, the error, the lines written.
Wrote(lines) == [raised |-> FALSE, error |-> NoError, out |-> lines]
Failed(error, lines) == [raised |-> TRUE, error |-> error, out |-> lines]

\* "if select: output_keys = select / else: output_keys = data.keys()".
\* data is the list get_azure_prices returns, and a list has no keys().
OutputKeys(data, select) ==
    IF ~select.none /\ select.keys # <<>>
    THEN [raised |-> FALSE, error |-> NoError, keys |-> select.keys]
    ELSE [raised |-> TRUE,
          error |-> Raise("AttributeError", <<"'list' object has no attribute 'keys'">>),
          keys |-> <<>>]

\* Whether x[y] raises KeyError for some y of output_keys and x of data.
MissingKey(data, output_keys) ==
    \E i \in 1..Len(data) : \E j \in 1..Len(output_keys) :
        output_keys[j] \notin DOMAIN data[i]

\* The first missing key, in the order the comprehension meets them.
FirstMissingKey(data, output_keys) ==
    LET i == CHOOSE a \in 1..Len(data) :
                /\ \E j \in 1..Len(output_keys) : output_keys[j] \notin DOMAIN data[a]
                /\ \A b \in 1..(a - 1) : \A j \in 1..Len(output_keys) :
                        output_keys[j] \in DOMAIN data[b]
        j == CHOOSE a \in 1..Len(output_keys) :
                /\ output_keys[a] \notin DOMAIN data[i]
                /\ \A b \in 1..(a - 1) : output_keys[b] \in DOMAIN data[i]
    IN  output_keys[j]

\* [[str(x[y]) for y in output_keys] for x in data]
Cells(data, output_keys) ==
    [i \in 1..Len(data) |-> [j \in 1..Len(output_keys) |-> Str(data[i][output_keys[j]])]]

\* The keys as text.
KeyTexts(output_keys) == [j \in 1..Len(output_keys) |-> <<output_keys[j]>>]

CsvRow(cells) == <<"\"">> \o Join(<<"\"", ",", "\"">>, cells) \o <<"\"">>
TsvRow(cells) == Join(<<"\t">>, cells)

\* Lines 178-183: the header row is printed, then the rows joined by newlines.
output_csv(data, select) ==
    LET k == OutputKeys(data, select) IN
    IF k.raised THEN Failed(k.error, <<>>)
    ELSE LET header == SplitLines(CsvRow(KeyTexts(k.keys))) IN
         IF MissingKey(data, k.keys)
         THEN Failed(Raise("KeyError", <<FirstMissingKey(data, k.keys)>>), header)
         ELSE LET cells == Cells(data, k.keys)
                  rows == [i \in 1..Len(data) |-> CsvRow(cells[i])]
              IN  Wrote(header \o SplitLines(Join(<<"\n">>, rows)))

\* Lines 195-200: as output_csv, with tabs and no quotes.
output_tsv(data, select) ==
    LET k == OutputKeys(data, select) IN
    IF k.raised THEN Failed(k.error, <<>>)
    ELSE LET header == SplitLines(TsvRow(KeyTexts(k.keys))) IN
         IF MissingKey(data, k.keys)
         THEN Failed(Raise("KeyError", <<FirstMissingKey(data, k.keys)>>), header)
         ELSE LET cells == Cells(data, k.keys)
                  rows == [i \in 1..Len(data) |-> TsvRow(cells[i])]
              IN  Wrote(header \o SplitLines(Join(<<"\n">>, rows)))

\* tabulate(rows, headers=...): the header cells, a rule, then one line per
\* row (the padding that aligns the columns is left out).
Tabulate(rows, headers) ==
    IF headers = <<>> /\ rows = <<>> THEN <<>>
    ELSE <<Join(<<"  ">>, headers), Join(<<"  ">>, [j \in 1..Len(headers) |-> <<"---">>])>>
            \o [i \in 1..Len(rows) |-> Join(<<"  ">>, rows[i])]

output_table(data, select) ==
    LET k == OutputKeys(data, select) IN
    IF k.raised THEN Failed(k.error, <<>>)
    ELSE IF MissingKey(data, k.keys)
    THEN Failed(Raise("KeyError", <<FirstMissingKey(data, k.keys)>>), <<>>)
    ELSE Wrote(SplitLines(Join(<<"\n">>, Tabulate(Cells(data, k.keys), KeyTexts(k.keys)))))

\* json.dumps of a field value, of one object and of the list.
JsonValue(v) == IF v.t = "num" THEN StrInt(v.n) ELSE <<"\"">> \o v.s \o <<"\"">>
JsonObject(x, output_keys) ==
    <<"{">> \o Join(<<", ">>, [j \in 1..Len(output_keys) |->
                        <<"\"", output_keys[j], "\"", ": ">> \o JsonValue(x[output_keys[j]])])
        \o <<"}">>
JsonDumps(data, output_keys) ==
    <<"[">> \o Join(<<", ">>, [i \in 1..Len(data) |-> JsonObject(data[i], output_keys)])
        \o <<"]">>

output_json(data, select) ==
    LET k == OutputKeys(data, select) IN
    IF k.raised THEN Failed(k.error, <<>>)
    ELSE IF MissingKey(data, k.keys)
    THEN Failed(Raise("KeyError", <<FirstMissingKey(data, k.keys)>>), <<>>)
    ELSE Wrote(SplitLines(JsonDumps(data, k.keys)))

\* Calling the function object named fn.
CallOutputter(fn, data, select) ==
    CASE fn = FnCsv -> output_csv(data, select)
      [] fn = FnTsv -> output_tsv(data, select)
      [] fn = FnJson -> output_json(data, select)
      [] OTHER -> output_table(data, select)

\* ------------------------------------------------------------ command line
\* --format: <<>> when not given (the default applies), else <<name>>.
DefaultFormat == NameTable
FormatOf(a) == IF a.format = <<>> THEN DefaultFormat ELSE a.format[1]

\* parse_args checks a given --format against choices=outputters.keys().
FormatAccepted(a, registry) == a.format = <<>> \/ a.format[1] \in DOMAIN registry

RECURSIVE BuildLimitDict(_, _)
\* Lines 243-245: limit_dict[property_].append(value) for every --limit pair.
BuildLimitDict(pairs, limit_dict) ==
    IF pairs = <<>> THEN limit_dict
    ELSE LET property_ == pairs[1][1]
             value == pairs[1][2]
             known == \E i \in 1..Len(limit_dict) : limit_dict[i].key = property_
         IN  BuildLimitDict(
                Tail(pairs),
                IF known
                THEN [i \in 1..Len(limit_dict) |->
                        IF limit_dict[i].key = property_
                        THEN [limit_dict[i] EXCEPT !.values = Append(@, value)]
                        ELSE limit_dict[i]]
                ELSE Append(limit_dict, [key |-> property_, values |-> <<value>>]))

\* The command lines tried: every format and selection without a limit, and
\* the default format with a limit.
Formats == {<<>>, <<NameCsv>>, <<NameTsv>>, <<NameJson>>, <<NameXml>>, <<FnCsv>>}
Selects == {NoSelect, Select(<<"skuId", "price">>), Select(<<"price", "region">>)}
Properties == {<<"p">>, <<"q">>}
Values == {<<"a">>, <<"b">>}
LimitPairs == Properties \X Values
CommandLines ==
    [format : Formats, select : Selects, limit : {<<>>}]
        \cup [format : {<<>>}, select : {Select(<<"skuId", "price">>)},
              limit : {<<<<<<"p">>, <<"a">>>>>>, <<<<<<"p">>, <<"a">>>>, <<<<"q">>, <<"b">>>>>>}]
\* The command lines that exercise the filter: any --limit pairs.
LimitCommandLines ==
    [format : {<<>>}, select : {NoSelect}, limit : SeqsUpTo(LimitPairs, MaxLimit)]

\* -------------------------------------------------------------------- state
VARIABLES
    pc,            \* where the script is
    args,          \* the parsed command line
    outputters,    \* find_outputters()
    limit_dict,    \* the filter dict built from --limit
    filter,        \* the filter text _build_filter returned
    api_args,      \* the arguments of the next call
    result_items,  \* the items collected so far
    served,        \* the responses received, in order
    queries,       \* the arguments of each call made, in order
    log,           \* the records logged
    error,         \* the exception that ended the run, if any
    exit_status,   \* the exit status, once the run has ended
    returned,      \* <<value>> once get_azure_prices has returned
    dispatched,    \* <<function>> once a formatter has been called
    stdout         \* the lines written to standard output

vars == <<pc, args, outputters, limit_dict, filter, api_args, result_items, served, queries,
          log, error, exit_status, returned, dispatched, stdout>>

InitWith(command_lines) ==
    /\ pc = "start"
    /\ args \in command_lines
    /\ outputters = EmptyDict
    /\ limit_dict = <<>>
    /\ filter = <<>>
    /\ api_args = <<>>
    /\ result_items = <<>>
    /\ served = <<>>
    /\ queries = <<>>
    /\ log = <<>>
    /\ error = NoError
    /\ exit_status = <<>>
    /\ returned = <<>>
    /\ dispatched = <<>>
    /\ stdout = <<>>

Init == InitWith(CommandLines)
InitFilter == InitWith(LimitCommandLines)

\* Lines 224-234: find the formatters, parse the command line.
ParseArgs ==
    /\ pc = "start"
    /\ outputters' = find_outputters
    /\ IF FormatAccepted(args, find_outputters)
       THEN /\ pc' = "parsed"
            /\ UNCHANGED <<error, exit_status>>
       ELSE /\ pc' = "exit"
            /\ error' = Raise("SystemExit", <<"invalid choice">>)
            /\ exit_status' = <<2>>
    /\ UNCHANGED <<args, limit_dict, filter, api_args, result_items, served, queries, log,
                   returned, dispatched, stdout>>

\* Lines 243-245.
BuildLimit ==
    /\ pc = "parsed"
    /\ limit_dict' = BuildLimitDict(args.limit, <<>>)
    /\ pc' = "fetch"
    /\ UNCHANGED <<args, outputters, filter, api_args, result_items, served, queries, log,
                   error, exit_status, returned, dispatched, stdout>>

\* Lines 107-113: get_azure_prices up to the loop.
BuildQuery ==
    /\ pc = "fetch"
    /\ filter' = _build_filter(limit_dict)
    /\ api_args' = InitialApiArgs(_build_filter(limit_dict), DefaultCurrency)
    /\ result_items' = <<>>
    /\ pc' = "call"
    /\ UNCHANGED <<args, outputters, limit_dict, served, queries, log, error,
                   exit_status, returned, dispatched>>
    /\ UNCHANGED stdout

\* Lines 114-120: one turn of the loop, the server answering with page.
ApiCall(page) ==
    /\ pc = "call"
    /\ Len(served) < MaxPages
    /\ LET r == _do_prices_api_call(api_args, page) IN
       /\ served' = Append(served, page)
       /\ queries' = Append(queries, api_args)
       /\ log' = log \o r.log
       /\ IF r.raised
          THEN /\ pc' = "error"
               /\ error' = r.error
               /\ exit_status' = <<1>>
               /\ UNCHANGED <<result_items, api_args>>
          ELSE LET after == AfterPage(api_args, r.json_result) IN
               /\ result_items' = result_items \o r.json_result.Items
               /\ pc' = after.pc
               /\ api_args' = after.api_args
               /\ error' = after.error
               /\ exit_status' = IF after.pc = "error" THEN <<1>> ELSE exit_status
    /\ UNCHANGED <<args, outputters, limit_dict, filter, returned, dispatched, stdout>>

\* Lines 123-130: log the counts and return.
LogCounts ==
    /\ pc = "log"
    /\ LET r == LogAndReturn(result_items) IN
       /\ log' = log \o r.log
       /\ returned' = r.value
       /\ error' = r.error
       /\ pc' = IF r.raised THEN "error" ELSE "output"
       /\ exit_status' = IF r.raised THEN <<1>> ELSE exit_status
    /\ UNCHANGED <<args, outputters, limit_dict, filter, api_args, result_items, served,
                   queries, dispatched, stdout>>

\* Line 248: call the chosen formatter on the returned list.
Output ==
    /\ pc = "output"
    /\ IF FormatOf(args) \in DOMAIN outputters
       THEN LET fn == outputters[FormatOf(args)]
                r == CallOutputter(fn, returned[1], args.select)
            IN  /\ dispatched' = <<fn>>
                /\ stdout' = stdout \o r.out
                /\ error' = r.error
                /\ pc' = IF r.raised THEN "error" ELSE "done"
                /\ exit_status' = IF r.raised THEN <<1>> ELSE <<0>>
       ELSE /\ error' = Raise("KeyError", FormatOf(args))
            /\ pc' = "error"
            /\ exit_status' = <<1>>
            /\ UNCHANGED <<dispatched, stdout>>
    /\ UNCHANGED <<args, outputters, limit_dict, filter, api_args, result_items, served,
                   queries, log, returned>>

Next ==
    \/ ParseArgs
    \/ BuildLimit
    \/ BuildQuery
    \/ \E page \in Pages : ApiCall(page)
    \/ LogCounts
    \/ Output

Spec == Init /\ [][Next]_vars

\* The script up to the first call, for every filter.
NextFilter ==
    \/ ParseArgs
    \/ BuildLimit
    \/ BuildQuery

SpecFilter == InitFilter /\ [][NextFilter]_vars

\* ------------------------------------------------------------------ claims
\* Whether sub occurs in s as a contiguous piece.
Contains(s, sub) ==
    \E i \in 0..(Len(s) - Len(sub)) : SubSeq(s, i + 1, i + Len(sub)) = sub

RECURSIVE Flatten(_)
\* The concatenation of a sequence of sequences.
Flatten(ss) == IF ss = <<>> THEN <<>> ELSE ss[1] \o Flatten(Tail(ss))

OkPage(p) == p.status = HTTP_OK
\* A page that supplies a next-page link with a query part.
HasNextLink(p) == p.NextPageLink.kind = "str" /\ HasTok(p.NextPageLink.s, "?")
\* A page whose next-page link is null or empty.
NoNextLink(p) == p.NextPageLink.kind = "null" \/ p.NextPageLink = StrLink(<<>>)
\* A page whose claimed Count is not the number of its items.
CountMismatch(p) == OkPage(p) /\ p.Count # Len(p.Items)
\* The items of the pages, in page order.
ItemsOf(pages) == Flatten([i \in 1..Len(pages) |-> pages[i].Items])
\* A complete run of pages: all answered 200, each but the last with a
\* next-page link, the last with none.
PagedRun(pages) ==
    /\ pages # <<>>
    /\ \A i \in 1..Len(pages) : OkPage(pages[i])
    /\ \A i \in 1..(Len(pages) - 1) : HasNextLink(pages[i])
    /\ NoNextLink(pages[Len(pages)])
\* The while loop has ended by its condition.
LoopEnded == served # <<>> /\ OkPage(served[Len(served)]) /\ NoNextLink(served[Len(served)])
\* get_azure_prices has run to its end, one way or the other.
FetchOver == pc \in {"output", "done", "error"}

\* C1: for every complete run of pages answered 200, get_azure_prices
\* returns the concatenation of the pages' items in page order, having made
\* one call per page.
C1_PaginationReturnsConcatenation ==
    (PagedRun(served) /\ FetchOver) =>
        /\ returned = <<ItemsOf(served)>>
        /\ Len(queries) = Len(served)

\* C2: once a call is answered with a status other than 200, that call is
\* the last one made, the run has ended with an AzurePricesApiError whose
\* message holds the status, nothing was returned and nothing was written.
C2_NonOkStatusAborts ==
    \A i \in 1..Len(served) :
        ~OkPage(served[i]) =>
            /\ i = Len(served)
            /\ Len(queries) = Len(served)
            /\ pc = "error"
            /\ ~ENABLED Next
            /\ error.type = "AzurePricesApiError"
            /\ Contains(error.message, StrInt(served[i].status))
            /\ returned = <<>>
            /\ dispatched = <<>>
            /\ stdout = <<>>

\* A call in the middle of a run failed after items had been collected.
C2_Witness ==
    /\ Len(served) = 2
    /\ HasNextLink(served[1])
    /\ served[1].Items # <<>>
    /\ served[2].status = 500
    /\ pc = "error"

\* The number of items collected before page i.
ItemsBefore(i) == Len(ItemsOf(SubSeq(served, 1, i - 1)))

\* C3: a page whose Count is not the number of its items is handled as any
\* other: its items are all in the result at their place, only a warning is
\* logged, the loop goes on by its link alone, and the fetch returns the
\* result when every call is answered 200 and every item has a skuId.
C3_CountMismatchIsNoError ==
    \A i \in 1..Len(served) :
        CountMismatch(served[i]) =>
            /\ SubSeq(result_items, ItemsBefore(i) + 1, ItemsBefore(i) + Len(served[i].Items))
                    = served[i].Items
            /\ \E k \in 1..Len(log) : log[k] = LogRec("warning", CountWarning(served[i]))
            /\ \A k \in 1..Len(log) : log[k] # LogRec("error", ApiErrorMessage(served[i]))
            /\ (i = Len(served)) => error.type # "AzurePricesApiError"
            /\ (i < Len(served)) =>
                    /\ HasNextLink(served[i])
                    /\ queries[i + 1] = AfterFirst(served[i].NextPageLink.s, "?")
            /\ (i = Len(served) /\ HasNextLink(served[i])) => pc = "call"
            /\ (i = Len(served) /\ NoNextLink(served[i])) => pc \in {"log", "output", "done", "error"}
            /\ (i = Len(served) /\ NoNextLink(served[i]) /\ FetchOver
                    /\ LacksSkuId(result_items) = {}) =>
                    returned = <<ItemsOf(served)>>

\* A mismatched first page was followed to a second page and the fetch returned.
C3_Witness ==
    /\ Len(served) = 2
    /\ CountMismatch(served[1])
    /\ served[1].Items # <<>>
    /\ CountMismatch(served[2])
    /\ returned = <<ItemsOf(served)>>

\* "property eq 'value'"
Comparison(key, value) == key \o <<" eq ", "'">> \o value \o <<"'">>
\* One parenthesised clause: the comparisons of an entry joined by " or ".
Clause(entry) ==
    <<"(">> \o Join(<<" or ">>, [j \in 1..Len(entry.values) |->
                        Comparison(entry.key, entry.values[j])])
        \o <<")">>
\* The number of places where tok stands in s.
CountTok(s, tok) == Cardinality({i \in 1..Len(s) : s[i] = tok})
RECURSIVE SumValues(_)
SumValues(entries) ==
    IF entries = <<>> THEN 0 ELSE Len(entries[1].values) + SumValues(Tail(entries))

\* C4: the built filter is the clauses of the filter dict, one per property
\* in insertion order, joined by " and "; clause i is the comparisons of
\* property i, one per value in order, joined by " or ".
C4_FilterShape ==
    pc = "call" =>
        /\ filter = Join(<<" and ">>, [i \in 1..Len(limit_dict) |-> Clause(limit_dict[i])])
        /\ CountTok(filter, "(") = Len(limit_dict)
        /\ CountTok(filter, " eq ") = SumValues(limit_dict)
        /\ limit_dict # <<>> =>
            /\ CountTok(filter, " and ") = Len(limit_dict) - 1
            /\ CountTok(filter, " or ") = SumValues(limit_dict) - Len(limit_dict)

\* A filter of two properties, the first with two values, was built.
C4_Witness ==
    /\ pc = "call"
    /\ Len(limit_dict) = 2
    /\ Len(limit_dict[1].values) = 2
    /\ Len(args.limit) = 3

\* currencyCode='<currency>'
CurrencyArg == <<"currencyCode=", "'">> \o DefaultCurrency \o <<"'">>

\* C5: with no limit the built filter is empty and the first call's
\* arguments are the currency argument alone, with no $filter; with a limit
\* they are the currency argument, "&$filter=" and the built filter.
C5_FirstQuery ==
    queries # <<>> =>
        /\ (limit_dict = <<>>) =>
                /\ filter = <<>>
                /\ queries[1] = CurrencyArg
                /\ ~HasTok(queries[1], "&$filter=")
        /\ (limit_dict # <<>>) =>
                /\ filter # <<>>
                /\ queries[1] = CurrencyArg \o <<"&$filter=">> \o filter

\* A first call with a filter was made, and a later call too.
C5_Witness ==
    /\ Len(queries) = 2
    /\ Len(limit_dict) = 2
    /\ HasTok(queries[1], "&$filter=")

\* C6: a formatter called without a selection completes without error.
C6_NoSelectionCompletes ==
    (dispatched # <<>> /\ args.select.none) => (pc = "done" /\ error = NoError)

\* C7: when the loop has ended, logging the counts leaves the collected
\* list as it is and get_azure_prices returns it.
C7_LoggingKeepsResult ==
    (LoopEnded /\ FetchOver) => returned = <<result_items>>

\* The lookup name a formatter is to have.
LookupName(m) ==
    IF m.user_facing_name # <<>> THEN m.user_facing_name[1]
    ELSE SubSeq(m.name, Len(PREFIX) + 1, Len(m.name))
\* The formatters of the module.
Formatters ==
    {ModuleMembers[i] : i \in {j \in 1..Len(ModuleMembers) :
                                    StartsWith(ModuleMembers[j].name, PREFIX)}}

\* C8: every formatter is registered under its lookup name and no other,
\* a registered format dispatches to the formatter of that name, and a
\* format that is not registered ends the run before any call or output.
C8_RegistryDispatch ==
    pc # "start" =>
        /\ \A m \in Formatters :
                {k \in DOMAIN outputters : outputters[k] = m.name} = {LookupName(m)}
        /\ DOMAIN outputters = {LookupName(m) : m \in Formatters}
        /\ dispatched # <<>> =>
                \E m \in Formatters :
                    LookupName(m) = FormatOf(args) /\ dispatched = <<m.name>>
        /\ (FormatOf(args) \notin {LookupName(m) : m \in Formatters}) =>
                /\ pc = "exit"
                /\ exit_status = <<2>>
                /\ queries = <<>>
                /\ served = <<>>
                /\ dispatched = <<>>
                /\ stdout = <<>>

\* The csv formatter was chosen by name and called.
C8_Witness ==
    /\ args.format = <<NameCsv>>
    /\ dispatched = <<FnCsv>>
    /\ pc = "done"

\* C9: output_csv, given a selection every item has the columns of, writes
\* the quoted header line and then one quoted line per item, in order.
C9_CsvHeaderThenLinePerItem ==
    (dispatched = <<FnCsv>> /\ ~args.select.none
            /\ ~MissingKey(returned[1], args.select.keys)) =>
        stdout = <<CsvRow(KeyTexts(args.select.keys))>>
                    \o [i \in 1..Len(returned[1]) |->
                            CsvRow([j \in 1..Len(args.select.keys) |->
                                        Str(returned[1][i][args.select.keys[j]])])]

\* C10: after a page with a next-page link the next call's arguments are the
\* text of the link after its first "?", nothing else; after a page with no
\* link (absent, null or empty) no further call is made.
C10_NextQueryFromLink ==
    \A i \in 1..Len(served) :
        OkPage(served[i]) =>
            LET link == served[i].NextPageLink IN
            /\ (i < Len(served)) =>
                    /\ HasNextLink(served[i])
                    /\ queries[i + 1] = AfterFirst(link.s, "?")
            /\ (i = Len(served) /\ HasNextLink(served[i])) =>
                    /\ pc = "call"
                    /\ api_args = AfterFirst(link.s, "?")
            /\ (link.kind \in {"absent", "null"} \/ link.s = <<>>) =>
                    /\ i = Len(served)
                    /\ pc # "call"

\* A filtered first call was followed by a call made from the link alone.
C10_Witness ==
    /\ Len(queries) = 2
    /\ HasTok(queries[1], "&$filter=")
    /\ queries[2] = <<"y", "?", "z">>

====
